---- MODULE Spec2Model ----
(***************************************************************************)
(* Experiment apply workflow (dvc/repo/experiments/apply.py) and the local *)
(* executors (dvc/repo/experiments/executor/local.py) as state machines    *)
(* over one base repository.                                               *)
(***************************************************************************)
EXTENDS Integers, Sequences, FiniteSets, TLC

VARIABLES
    scm,        \* base repository: [wt, index, stash, merging]
    refs,       \* base repository: stable refs and branches -> value
    head,       \* base repository: what HEAD is attached to / detached at
    outs,       \* DVC-tracked outputs materialized in the workspace
    argsFile,   \* the packed-arguments file exists in repo.tmp_dir
    repoLock,   \* holder of the whole-repository lock (@locked)
    ap,         \* the apply call in progress: locals of apply()
    pre,        \* the repository as it was when apply was called
    calls,      \* apply calls made so far
    ex,         \* per executor: its fields and the position of its method
    xr,         \* per executor: the repository in its temp directory
    info,       \* per executor: the status its infofile shows (none: no file)
    temps,      \* base repository: the temp refs, [name, rev]
    locks,      \* the ref leases held: [holder, mode, name]
    branches,   \* base repository: the commit of each branch
    nextUid,    \* the next value uuid() returns
    other,      \* a concurrent writer that moves the branch
    wcov,       \* the last step's base ref writes were covered by a lease
    idem        \* per executor: what it left when its last cleanup ended

applyVars == <<scm, refs, head, outs, argsFile, repoLock, ap, pre, calls>>
applyOnly == <<outs, argsFile, repoLock, ap, pre, calls>>
execVars == <<ex, xr, info, temps, locks, branches, nextUid, other, wcov, idem>>
vars == <<applyVars, execVars>>

None == "none"

(***************************************************************************)
(* Bounds                                                                  *)
(***************************************************************************)
MaxCalls == 2
\* lock-contention retries of one init_git followed when executors run
\* side by side
MaxContend == 2
\* cleanup calls per executor
MaxCleanups == 2
\* cleanup calls per executor when two executors run side by side
MaxPairCleanups == 1

(***************************************************************************)
(* Working tree contents, at file granularity                              *)
(***************************************************************************)
InHead == {"a.txt", "b.txt"}
Files == InHead \cup {"n.txt"}
HeadTree == [f \in Files |-> IF f \in InHead THEN "head" ELSE None]

\* commits that can be applied, with the files each changes against HEAD
Commits == {"x1", "x2", "qs", "y1"}
ChangedBy(c) ==
    CASE c = "base" -> {}
      [] c = "x1" -> {"a.txt"}
      [] c = "x2" -> {"a.txt", "n.txt"}
      [] c = "qs" -> {"b.txt"}
      [] OTHER    -> {"a.txt"}
Tree(c) == [f \in Files |-> IF f \in ChangedBy(c) THEN c ELSE HeadTree[f]]

\* the repository's current baseline commit: repo.scm.get_rev()
get_rev == "base"
BaselineOf(c) == IF c = "y1" THEN "old" ELSE "base"

(***************************************************************************)
(* Version-control primitives the code calls on repo.scm                   *)
(***************************************************************************)
is_dirty(g) == g.wt # HeadTree

\* three-way merge of one file against the HEAD content
Conflicts(ours, theirs, f) ==
    /\ theirs[f] # HeadTree[f]
    /\ ours[f] # HeadTree[f]
    /\ ours[f] # theirs[f]
Merge3(ours, theirs, skip) ==
    [f \in Files |->
        IF theirs[f] = HeadTree[f] \/ f \in skip THEN ours[f] ELSE theirs[f]]

\* scm.reset(): mixed reset, index and merge bookkeeping back to HEAD
reset(g) == [g EXCEPT !.index = {}, !.merging = FALSE]

\* scm.reset(hard=True): tracked and staged files back to HEAD as well
reset_hard(g) ==
    [g EXCEPT !.wt = [f \in Files |->
                        IF f \in InHead \cup g.index THEN HeadTree[f] ELSE g.wt[f]],
              !.index = {},
              !.merging = FALSE]

\* scm.stash.push(include_untracked=True)
stash_push(g) ==
    [g EXCEPT !.stash = Append(g.stash, g.wt), !.wt = HeadTree, !.index = {}]

\* scm.stash.drop(): drops the newest entry
stash_drop(g) ==
    [g EXCEPT !.stash = SubSeq(g.stash, 1, Len(g.stash) - 1)]

\* scm.stash.apply(rev, skip_conflicts): files of the entry in conflict
stash_conflicts(g, rev) == {f \in Files : Conflicts(g.wt, g.stash[rev], f)}
stash_apply(g, rev, skip) ==
    [g EXCEPT !.wt = Merge3(g.wt, g.stash[rev], skip)]

\* scm.stash.pop(): apply the newest entry and drop it; ok = no conflict
stash_pop(g) ==
    LET top == Len(g.stash) IN
    IF top = 0 \/ stash_conflicts(g, top) # {}
    THEN [g |-> g, ok |-> FALSE]
    ELSE [g |-> stash_drop(stash_apply(g, top, {})), ok |-> TRUE]

\* scm.merge(rev, commit=False, squash=True) when it succeeds
merge(g, c) ==
    [g EXCEPT !.wt = Merge3(g.wt, Tree(c), {}),
              !.index = g.index \cup (ChangedBy(c) \ InHead)]

\* what a merge that raised may leave behind: conflict markers in some of the
\* files it touched, new files staged or not, merge bookkeeping set or not
MergeLeftovers(g, c) ==
    { [g EXCEPT !.wt = [f \in Files |-> IF f \in L THEN "conf" ELSE g.wt[f]],
                !.index = g.index \cup I,
                !.merging = m] :
        L \in SUBSET ChangedBy(c), I \in SUBSET (ChangedBy(c) \ InHead),
        m \in BOOLEAN }

(***************************************************************************)
(* _clean_and_pop: revert any changes and pop the last stash entry          *)
(***************************************************************************)
clean_and_pop(g) ==
    LET g1 == reset_hard(g)
        g2 == IF is_dirty(g1) THEN stash_drop(stash_push(g1)) ELSE g1
    IN  stash_pop(g2)

(***************************************************************************)
(* Revision resolution                                                     *)
(***************************************************************************)
Names == {"x1", "y1", "exp-1", "exp-old", "queued", "queued-old", "both",
          "old-and-queued", "nope"}

\* resolve_rev(repo.scm, rev): a commit, or None for RevError
resolve_rev(rev) == IF rev \in {"x1", "y1"} THEN rev ELSE None

\* exps.check_baseline(exp_rev): FALSE stands for BaselineMismatchError
check_baseline(c) == BaselineOf(c) = get_rev

\* exps.celery_queue.get_ref_and_entry_by_names(rev)[rev]
NoRef == [commit |-> None, baseline_sha |-> None]
NoEntry == [stash_rev |-> None, baseline_rev |-> None]
get_ref_and_entry_by_names(rev) ==
    CASE rev = "exp-1" ->
            [ref |-> [commit |-> "x2", baseline_sha |-> "base"], entry |-> NoEntry]
      [] rev = "exp-old" ->
            [ref |-> [commit |-> "y1", baseline_sha |-> "old"], entry |-> NoEntry]
      [] rev = "queued" ->
            [ref |-> NoRef, entry |-> [stash_rev |-> "qs", baseline_rev |-> "base"]]
      [] rev = "queued-old" ->
            [ref |-> NoRef, entry |-> [stash_rev |-> "qs", baseline_rev |-> "old"]]
      [] rev = "both" ->
            [ref |-> [commit |-> "x1", baseline_sha |-> "base"],
             entry |-> [stash_rev |-> "qs", baseline_rev |-> "base"]]
      [] rev = "old-and-queued" ->
            [ref |-> [commit |-> "y1", baseline_sha |-> "old"],
             entry |-> [stash_rev |-> "qs", baseline_rev |-> "base"]]
      [] rev = "x1" ->
            [ref |-> [commit |-> "x2", baseline_sha |-> "base"],
             entry |-> [stash_rev |-> "qs", baseline_rev |-> "base"]]
      [] OTHER -> [ref |-> NoRef, entry |-> NoEntry]

\* Resolution with the queued entry looked at before the experiment ref
ResolutionEntryFirst(rev) ==
    LET direct == resolve_rev(rev)
        found == get_ref_and_entry_by_names(rev)
        invalid == [exp_rev |-> None, is_stash |-> FALSE]
    IN  IF direct # None
        THEN IF check_baseline(direct)
             THEN [exp_rev |-> direct, is_stash |-> FALSE]
             ELSE invalid
        ELSE IF found.entry.stash_rev # None
        THEN IF found.entry.baseline_rev # get_rev
             THEN invalid
             ELSE [exp_rev |-> found.entry.stash_rev, is_stash |-> TRUE]
        ELSE IF found.ref.commit # None
        THEN IF get_rev # found.ref.baseline_sha
             THEN invalid
             ELSE [exp_rev |-> found.ref.commit, is_stash |-> FALSE]
        ELSE invalid

\* Resolution without the baseline comparison of the queued entry (line 53)
ResolutionNoEntryCheck(rev) ==
    LET direct == resolve_rev(rev)
        found == get_ref_and_entry_by_names(rev)
        invalid == [exp_rev |-> None, is_stash |-> FALSE]
    IN  IF direct # None
        THEN IF check_baseline(direct)
             THEN [exp_rev |-> direct, is_stash |-> FALSE]
             ELSE invalid
        ELSE IF found.ref.commit # None
        THEN IF get_rev # found.ref.baseline_sha
             THEN invalid
             ELSE [exp_rev |-> found.ref.commit, is_stash |-> FALSE]
        ELSE IF found.entry.stash_rev # None
        THEN [exp_rev |-> found.entry.stash_rev, is_stash |-> TRUE]
        ELSE invalid

\* lines 36-60 of apply: [exp_rev, is_stash], exp_rev = None for
\* InvalidExpRevError
Resolution(rev) ==
    LET direct == resolve_rev(rev)
        found == get_ref_and_entry_by_names(rev)
        invalid == [exp_rev |-> None, is_stash |-> FALSE]
    IN  IF direct # None
        THEN IF check_baseline(direct)
             THEN [exp_rev |-> direct, is_stash |-> FALSE]
             ELSE invalid
        ELSE IF found.ref.commit # None
        THEN IF get_rev # found.ref.baseline_sha
             THEN invalid
             ELSE [exp_rev |-> found.ref.commit, is_stash |-> FALSE]
        ELSE IF found.entry.stash_rev # None
        THEN IF found.entry.baseline_rev # get_rev
             THEN invalid
             ELSE [exp_rev |-> found.entry.stash_rev, is_stash |-> TRUE]
        ELSE invalid

(***************************************************************************)
(* apply(repo, rev, force)                                                 *)
(***************************************************************************)
RefNames == {"EXEC_HEAD", "EXEC_MERGE", "EXEC_BASELINE", "EXEC_BRANCH",
             "EXEC_CHECKPOINT", "EXEC_APPLY"}

\* exception classes a backend call may raise
ErrTypes == {"SCMError", "Exception"}

IdleApply ==
    [pc |-> "idle", rev |-> None, force |-> TRUE, exp_rev |-> None,
     is_stash |-> FALSE, stash_rev |-> 0, err |-> None,
     rolledBack |-> FALSE, injected |-> FALSE, mergeTried |-> FALSE]

Snapshot == [scm |-> scm, refs |-> refs, head |-> head, argsFile |-> argsFile]

\* a user's stash entry made before any apply
OldStash == [f \in Files |-> IF f = "a.txt" THEN "old" ELSE HeadTree[f]]

UserTrees ==
    { t \in [Files -> {"head", "user", None}] :
        /\ \A f \in InHead : t[f] \in {"head", "user"}
        /\ t["n.txt"] \in {None, "user"} }

InitApply ==
    /\ scm \in { [wt |-> t, index |-> {}, stash |-> s, merging |-> FALSE] :
                    t \in UserTrees, s \in {<<>>, <<OldStash>>} }
    /\ refs = [r \in RefNames |-> None]
    /\ head = "main"
    /\ outs = "base"
    /\ argsFile \in BOOLEAN
    /\ repoLock = None
    /\ ap = IdleApply
    /\ pre = Snapshot
    /\ calls = 0

\* @locked: the call takes the whole-repository lock
Call(rev, force) ==
    /\ ap.pc = "idle"
    /\ calls < MaxCalls
    /\ repoLock = None
    /\ repoLock' = "apply"
    /\ ap' = [IdleApply EXCEPT !.pc = "resolve", !.rev = rev, !.force = force]
    /\ pre' = Snapshot
    /\ calls' = calls + 1
    /\ UNCHANGED <<scm, refs, head, outs, argsFile,
                   execVars>>

\* lines 39-60
Resolve ==
    /\ ap.pc = "resolve"
    /\ LET res == Resolution(ap.rev) IN
       ap' = IF res.exp_rev = None
             THEN [ap EXCEPT !.pc = "raised", !.err = "InvalidExpRevError"]
             ELSE [ap EXCEPT !.pc = "workspace", !.exp_rev = res.exp_rev,
                             !.is_stash = res.is_stash]
    /\ UNCHANGED <<scm, refs, head, outs, argsFile, repoLock, pre, calls,
                   execVars>>

\* _apply_workspace, lines 94-98: snapshot a dirty working tree
EnterWorkspace ==
    /\ ap.pc = "workspace"
    /\ IF is_dirty(scm)
       THEN /\ scm' = stash_push(scm)
            /\ ap' = [ap EXCEPT !.pc = "merge", !.stash_rev = Len(scm.stash) + 1]
       ELSE /\ scm' = scm
            /\ ap' = [ap EXCEPT !.pc = "merge", !.stash_rev = 0]
    /\ UNCHANGED <<refs, head, outs, argsFile, repoLock, pre, calls,
                   execVars>>

\* the except clauses of _apply_workspace: rollback only if a snapshot exists
Rollback(g, a, err) ==
    LET r == clean_and_pop(g) IN
    [scm |-> r.g,
     ap |-> [a EXCEPT !.pc = "raised", !.rolledBack = TRUE,
                      !.err = IF r.ok THEN err ELSE "StashPopError"]]

\* lines 64-68 and the handler of lines 99-104
MergeOk ==
    /\ ap.pc = "merge"
    /\ scm' = merge(scm, ap.exp_rev)
    /\ ap' = [ap EXCEPT !.pc = "reapply", !.mergeTried = TRUE]
    /\ UNCHANGED <<refs, head, outs, argsFile, repoLock, pre, calls,
                   execVars>>

MergeFail ==
    /\ ap.pc = "merge"
    /\ \E t \in ErrTypes, left \in MergeLeftovers(scm, ap.exp_rev) :
        LET err == IF t = "SCMError" THEN "GitMergeError" ELSE "Exception"
            a == [ap EXCEPT !.mergeTried = TRUE, !.injected = TRUE]
        IN  IF ap.stash_rev # 0
            THEN /\ scm' = Rollback(left, a, err).scm
                 /\ ap' = Rollback(left, a, err).ap
            ELSE /\ scm' = left
                 /\ ap' = [a EXCEPT !.pc = "raised", !.err = err]
    /\ UNCHANGED <<refs, head, outs, argsFile, repoLock, pre, calls,
                   execVars>>

\* what a stash apply that raised may leave: some of the entry's files applied
ApplyLeftovers(g, rev) ==
    { stash_apply(g, rev, Files \ A) :
        A \in SUBSET (Files \ stash_conflicts(g, rev)) }

\* lines 105-106: no snapshot was taken
ReapplyNone ==
    /\ ap.pc = "reapply"
    /\ ap.stash_rev = 0
    /\ ap' = [ap EXCEPT !.pc = "postreset"]
    /\ UNCHANGED <<scm, refs, head, outs, argsFile, repoLock, pre, calls,
                   execVars>>

\* ReapplyOk with skip_conflicts=True whatever force is
ReapplyOkAlwaysSkip ==
    /\ ap.pc = "reapply"
    /\ ap.stash_rev # 0
    /\ LET g1 == reset(scm)
           conf == stash_conflicts(g1, ap.stash_rev)
       IN  scm' = stash_drop(stash_apply(g1, ap.stash_rev, conf))
    /\ ap' = [ap EXCEPT !.pc = "postreset"]
    /\ UNCHANGED <<refs, head, outs, argsFile, repoLock, pre, calls,
                   execVars>>

\* lines 108-111
ReapplyOk ==
    /\ ap.pc = "reapply"
    /\ ap.stash_rev # 0
    /\ LET g1 == reset(scm)
           conf == stash_conflicts(g1, ap.stash_rev)
       IN  /\ ap.force \/ conf = {}
           /\ scm' = stash_drop(stash_apply(g1, ap.stash_rev, conf))
    /\ ap' = [ap EXCEPT !.pc = "postreset"]
    /\ UNCHANGED <<refs, head, outs, argsFile, repoLock, pre, calls,
                   execVars>>

\* lines 110, 112-114: a conflicting hunk and skip_conflicts=False
ReapplyConflict ==
    /\ ap.pc = "reapply"
    /\ ap.stash_rev # 0
    /\ LET g1 == reset(scm) IN
        /\ ~ap.force
        /\ stash_conflicts(g1, ap.stash_rev) # {}
        /\ \E left \in ApplyLeftovers(g1, ap.stash_rev) :
            /\ scm' = Rollback(left, ap, "ApplyConflictError").scm
            /\ ap' = Rollback(left, ap, "ApplyConflictError").ap
    /\ UNCHANGED <<refs, head, outs, argsFile, repoLock, pre, calls,
                   execVars>>

\* lines 108-117: reset, stash.apply or stash.drop raises for another reason
ReapplyFail ==
    /\ ap.pc = "reapply"
    /\ ap.stash_rev # 0
    /\ \E at \in {"reset", "apply", "drop"}, t \in ErrTypes :
        LET g1 == reset(scm)
            conf == stash_conflicts(g1, ap.stash_rev)
            err == IF t = "SCMError" THEN "ApplyConflictError" ELSE "Exception"
            a == [ap EXCEPT !.injected = TRUE]
            lefts == CASE at = "reset" -> {scm}
                       [] at = "apply" -> ApplyLeftovers(g1, ap.stash_rev)
                       [] OTHER -> {stash_apply(g1, ap.stash_rev, conf)}
        IN  /\ at = "drop" => (ap.force \/ conf = {})
            /\ \E left \in lefts :
                /\ scm' = Rollback(left, a, err).scm
                /\ ap' = Rollback(left, a, err).ap
    /\ UNCHANGED <<refs, head, outs, argsFile, repoLock, pre, calls,
                   execVars>>

\* line 70
PostReset ==
    /\ ap.pc = "postreset"
    /\ scm' = reset(scm)
    /\ ap' = [ap EXCEPT !.pc = "args"]
    /\ UNCHANGED <<refs, head, outs, argsFile, repoLock, pre, calls,
                   execVars>>

\* lines 72-76
RemoveArgs ==
    /\ ap.pc = "args"
    /\ argsFile' = IF ap.is_stash THEN FALSE ELSE argsFile
    /\ ap' = [ap EXCEPT !.pc = "checkout"]
    /\ UNCHANGED <<scm, refs, head, outs, repoLock, pre, calls,
                   execVars>>

\* line 78: materialize the tracked outputs (an external collaborator)
DvcCheckoutOk ==
    /\ ap.pc = "checkout"
    /\ outs' = ap.exp_rev
    /\ ap' = [ap EXCEPT !.pc = "setref"]
    /\ UNCHANGED <<scm, refs, head, argsFile, repoLock, pre, calls,
                   execVars>>

DvcCheckoutFail ==
    /\ ap.pc = "checkout"
    /\ outs' \in {outs, "partial"}
    /\ ap' = [ap EXCEPT !.pc = "raised", !.err = "CheckoutError",
                        !.injected = TRUE]
    /\ UNCHANGED <<scm, refs, head, argsFile, repoLock, pre, calls,
                   execVars>>

\* SetApplyRef recording the name given instead of the resolved commit
SetApplyRefName ==
    /\ ap.pc = "setref"
    /\ refs' = [refs EXCEPT !["EXEC_APPLY"] = ap.rev]
    /\ ap' = [ap EXCEPT !.pc = "done"]
    /\ UNCHANGED <<scm, head, outs, argsFile, repoLock, pre, calls,
                   execVars>>

\* line 80
SetApplyRef ==
    /\ ap.pc = "setref"
    /\ refs' = [refs EXCEPT !["EXEC_APPLY"] = ap.exp_rev]
    /\ ap' = [ap EXCEPT !.pc = "done"]
    /\ UNCHANGED <<scm, head, outs, argsFile, repoLock, pre, calls,
                   execVars>>

\* apply returned or raised: the whole-repository lock is released
Return ==
    /\ ap.pc \in {"done", "raised"}
    /\ ap' = IdleApply
    /\ repoLock' = None
    /\ UNCHANGED <<scm, refs, head, outs, argsFile, pre, calls,
                   execVars>>

NextApply ==
    \/ \E rev \in Names, force \in BOOLEAN : Call(rev, force)
    \/ Resolve
    \/ EnterWorkspace
    \/ MergeOk
    \/ MergeFail
    \/ ReapplyNone
    \/ ReapplyOk
    \/ ReapplyConflict
    \/ ReapplyFail
    \/ PostReset
    \/ RemoveArgs
    \/ DvcCheckoutOk
    \/ DvcCheckoutFail
    \/ SetApplyRef
    \/ Return


(***************************************************************************)
(* Local executors: state                                                  *)
(***************************************************************************)
Executors == {"e1", "e2"}
Kinds == {"tempdir", "workspace"}
Branches == {"br"}

\* @retry(180, errors=LockError, timeout=1)
Tries == 180

\* the stash entries executors are made from
Entries == {"s1", "s2"}
Entry(s) ==
    [head_rev |-> "base", baseline_rev |-> "base",
     stash_rev |-> IF s = "s1" THEN "qs" ELSE "qs2"]

NoExecutor ==
    [kind |-> None, entry |-> None, branch |-> None, pc |-> "none",
     status |-> "UNINITIALIZED", attempt |-> 0, uid |-> 0, err |-> None,
     orig_checkpoint |-> None, detach |-> None, cleanups |-> 0]

NoRepo ==
    [dir |-> FALSE, repo |-> FALSE, refs |-> [r \in RefNames |-> None],
     br |-> None, head |-> None, merged |-> None]

\* names of leases and of temp refs: <<name, uuid>>, uuid 0 for fixed names
Stable(n) == <<n, 0>>
ExecNamespace == Stable("EXEC_NAMESPACE")
TempNames(u) == {<<"head", u>>, <<"merge", u>>, <<"baseline", u>>}

InitExecutors ==
    /\ ex = [e \in Executors |-> NoExecutor]
    /\ xr = [e \in Executors |-> NoRepo]
    /\ info = [e \in Executors |-> None]
    /\ temps = {}
    /\ branches = [b \in Branches |-> "b1"]
    /\ nextUid = 1
    /\ other = "idle"
    /\ wcov = TRUE
    /\ idem = [e \in Executors |-> <<>>]

InitExec == InitExecutors /\ locks = {}

\* the working tree executors start from is clean
InitBase ==
    /\ scm = [wt |-> HeadTree, index |-> {}, stash |-> <<>>, merging |-> FALSE]
    /\ refs \in { [[r \in RefNames |-> None] EXCEPT !["EXEC_CHECKPOINT"] = c] :
                    c \in {None, "ck0"} }
    /\ head = "main"
    /\ outs = "base"
    /\ argsFile = FALSE
    /\ repoLock = None
    /\ ap = IdleApply
    /\ pre = Snapshot
    /\ calls = 0

(***************************************************************************)
(* get_exp_rwlock: read and write leases over ref names                    *)
(***************************************************************************)
Covers(l, n) == l = n \/ (l = ExecNamespace /\ n[1] \in RefNames)
Overlap(a, b) == Covers(a, b) \/ Covers(b, a)

\* LockError: another holder writes what is asked, or reads what is to be
\* written
Blocked(p, reads, writes) ==
    \E l \in locks :
        /\ l.holder # p
        /\ \/ l.mode = "w" /\ \E n \in reads \cup writes : Overlap(l.name, n)
           \/ l.mode = "r" /\ \E n \in writes : Overlap(l.name, n)

Leases(p, reads, writes) ==
    {[holder |-> p, mode |-> "r", name |-> n] : n \in reads}
        \cup {[holder |-> p, mode |-> "w", name |-> n] : n \in writes}

\* p writes the base refs named while a write lease of its own, or the
\* whole-repository lock, covers each of them
Covered(p, names) ==
    \A n \in names :
        \/ repoLock = p
        \/ \E l \in locks : l.holder = p /\ l.mode = "w" /\ Covers(l.name, n)

\* bookkeeping of the executors other than e: their cleanup is no longer
\* the last thing that happened
Solo(e) == idem' = [x \in Executors |-> IF x = e THEN idem[e] ELSE <<>>]

(***************************************************************************)
(* from_stash_entry and __init__                                           *)
(***************************************************************************)
\* lines 164-182 (mkdtemp) and lines 186-203 (_orig_checkpoint)
Create(e, kind, s, branch) ==
    /\ ex[e].pc = "none"
    /\ ex' = [ex EXCEPT ![e] =
                [NoExecutor EXCEPT
                    !.kind = kind, !.entry = s, !.branch = branch, !.pc = "new",
                    !.orig_checkpoint =
                        IF kind = "workspace" THEN refs["EXEC_CHECKPOINT"]
                        ELSE None]]
    /\ xr' = [xr EXCEPT ![e].dir = (kind = "tempdir")]
    /\ wcov' = TRUE
    /\ Solo(e)
    /\ UNCHANGED <<scm, refs, head, applyOnly, info, temps, locks, branches,
                   nextUid, other>>

(***************************************************************************)
(* init_git: the lease requests and the retry decorator                    *)
(***************************************************************************)
InitStart(e) == IF ex[e].kind = "tempdir" THEN "t_init" ELSE "w_prep"

\* the call of init_git by the caller of the executor
StartInit(e) ==
    /\ ex[e].pc = "new"
    /\ ex' = [ex EXCEPT ![e].pc = InitStart(e), ![e].attempt = 1]
    /\ wcov' = TRUE
    /\ Solo(e)
    /\ UNCHANGED <<scm, refs, head, applyOnly, xr, info, temps, locks,
                   branches, nextUid, other>>

\* init_git raises err under @retry: called again if the error is a
\* LockError and tries are left, else the error reaches the caller
RetryableAny(err) == TRUE
Retryable(err) == err = "LockError"
Raise(e, err) ==
    IF Retryable(err) /\ ex[e].attempt < Tries
    THEN [ex[e] EXCEPT !.pc = InitStart(e), !.attempt = @ + 1, !.uid = 0]
    ELSE [ex[e] EXCEPT !.pc = "failed", !.err = err, !.uid = 0]

\* what init_git asks of get_exp_rwlock where it stands:
\* lines 103-105, line 120, line 221
LockPcs == {"t_lock", "t_rlock", "w_lock"}
Request(e) ==
    CASE ex[e].pc = "t_lock" -> [reads |-> {}, writes |-> TempNames(nextUid)]
      [] ex[e].pc = "t_rlock" -> [reads |-> {Stable(ex[e].branch)}, writes |-> {}]
      [] OTHER -> [reads |-> {}, writes |-> {ExecNamespace}]

Acquire(e) ==
    /\ ex[e].pc \in LockPcs
    /\ ~Blocked(e, Request(e).reads, Request(e).writes)
    /\ locks' = locks \cup Leases(e, Request(e).reads, Request(e).writes)
    /\ ex' = [ex EXCEPT
                ![e].pc = CASE ex[e].pc = "t_lock" -> "t_settemps"
                            [] ex[e].pc = "t_rlock" -> "t_push"
                            [] OTHER -> "w_head",
                ![e].uid = IF ex[e].pc = "t_lock" THEN nextUid ELSE @]
    /\ nextUid' = IF ex[e].pc = "t_lock" THEN nextUid + 1 ELSE nextUid
    /\ wcov' = TRUE
    /\ Solo(e)
    /\ UNCHANGED <<scm, refs, head, applyOnly, xr, info, temps, branches, other>>

\* set_temp_refs losing track of the refs it set
NoTemps(e) == {}

\* the temp refs of e in the base repository
OwnTemps(e) == {t \in temps : t.name \in TempNames(ex[e].uid)}

\* LockError: the with statements unwind (set_temp_refs removes the temp
\* refs, the leases are released), then @retry calls init_git again unless
\* this was the last try
AcquireFail(e) ==
    /\ ex[e].pc \in LockPcs
    /\ Blocked(e, Request(e).reads, Request(e).writes)
    /\ temps' = temps \ OwnTemps(e)
    /\ wcov' = Covered(e, {t.name : t \in OwnTemps(e)})
    /\ locks' = {l \in locks : l.holder # e}
    /\ nextUid' = IF ex[e].pc = "t_lock" THEN nextUid + 1 ELSE nextUid
    /\ ex' = [ex EXCEPT ![e] = Raise(e, "LockError")]
    /\ Solo(e)
    /\ UNCHANGED <<scm, refs, head, applyOnly, xr, info, branches, other>>

(***************************************************************************)
(* TempDirExecutor.init_git                                                *)
(***************************************************************************)
\* line 88: DulwichRepo.init in the temp directory
TInitRepo(e) ==
    /\ ex[e].pc = "t_init"
    /\ xr' = [xr EXCEPT ![e].repo = TRUE]
    /\ ex' = [ex EXCEPT ![e].pc = "t_prep"]
    /\ wcov' = TRUE
    /\ Solo(e)
    /\ UNCHANGED <<scm, refs, head, applyOnly, info, temps, locks, branches,
                   nextUid, other>>

\* line 88 run again by a retry: creating a repository where one exists may
\* raise, which is no LockError and ends init_git
TInitRepoExists(e) ==
    /\ ex[e].pc = "t_init"
    /\ xr[e].repo
    /\ ex' = [ex EXCEPT ![e] = Raise(e, "FileExistsError")]
    /\ wcov' = TRUE
    /\ Solo(e)
    /\ UNCHANGED <<scm, refs, head, applyOnly, xr, info, temps, locks,
                   branches, nextUid, other>>

\* lines 90-92
TPrepare(e) ==
    /\ ex[e].pc = "t_prep"
    /\ ex' = [ex EXCEPT ![e].pc = "t_lock", ![e].status = "PREPARING"]
    /\ info' = [info EXCEPT ![e] = "PREPARING"]
    /\ wcov' = TRUE
    /\ Solo(e)
    /\ UNCHANGED <<scm, refs, head, applyOnly, xr, temps, locks, branches,
                   nextUid, other>>

\* lines 98-105: set_temp_refs sets the three temp refs
TSetTemps(e) ==
    /\ ex[e].pc = "t_settemps"
    /\ LET u == ex[e].uid
           en == Entry(ex[e].entry)
       IN  temps' = temps \cup
                {[name |-> <<"head", u>>, rev |-> en.head_rev],
                 [name |-> <<"merge", u>>, rev |-> en.stash_rev],
                 [name |-> <<"baseline", u>>, rev |-> en.baseline_rev]}
    /\ wcov' = Covered(e, TempNames(ex[e].uid))
    /\ ex' = [ex EXCEPT ![e].pc = IF ex[e].branch # None THEN "t_rlock"
                                  ELSE "t_push"]
    /\ Solo(e)
    /\ UNCHANGED <<scm, refs, head, applyOnly, xr, info, locks, branches,
                   nextUid, other>>

\* the value a temp ref has in the base repository
TempRev(name) ==
    IF \E t \in temps : t.name = name
    THEN (CHOOSE t \in temps : t.name = name).rev
    ELSE None

\* lines 112-124: push_refspec, and the read lease on the branch released
TPush(e) ==
    /\ ex[e].pc = "t_push"
    /\ LET u == ex[e].uid IN
       xr' = [xr EXCEPT
                ![e].refs = [@ EXCEPT !["EXEC_HEAD"] = TempRev(<<"head", u>>),
                                      !["EXEC_MERGE"] = TempRev(<<"merge", u>>),
                                      !["EXEC_BASELINE"] = TempRev(<<"baseline", u>>)],
                ![e].br = IF ex[e].branch # None THEN branches[ex[e].branch]
                          ELSE @]
    /\ locks' = {l \in locks : ~(l.holder = e /\ l.mode = "r")}
    /\ ex' = [ex EXCEPT ![e].pc = "t_local"]
    /\ wcov' = TRUE
    /\ Solo(e)
    /\ UNCHANGED <<scm, refs, head, applyOnly, info, temps, branches, nextUid,
                   other>>

\* lines 121, 124: push_refspec raises (no LockError); the with statements
\* unwind as after a refused lease and the error reaches the caller
TPushFail(e) ==
    /\ ex[e].pc = "t_push"
    /\ temps' = temps \ OwnTemps(e)
    /\ wcov' = Covered(e, {t.name : t \in OwnTemps(e)})
    /\ locks' = {l \in locks : l.holder # e}
    /\ ex' = [ex EXCEPT ![e] = Raise(e, "PushError")]
    /\ Solo(e)
    /\ UNCHANGED <<scm, refs, head, applyOnly, xr, info, branches, nextUid,
                   other>>

\* lines 122, 125-129: EXEC_BRANCH and EXEC_CHECKPOINT in the executor's
\* repository
TLocal(e) ==
    /\ ex[e].pc = "t_local"
    /\ xr' = [xr EXCEPT
                ![e].refs = [@ EXCEPT !["EXEC_BRANCH"] = ex[e].branch,
                                      !["EXEC_CHECKPOINT"] = None]]
    /\ ex' = [ex EXCEPT ![e].pc = "t_rmtemps"]
    /\ wcov' = TRUE
    /\ Solo(e)
    /\ UNCHANGED <<scm, refs, head, applyOnly, info, temps, locks, branches,
                   nextUid, other>>

\* exit of set_temp_refs: the temp refs are removed
TRemoveTemps(e) ==
    /\ ex[e].pc = "t_rmtemps"
    /\ temps' = temps \ OwnTemps(e)
    /\ wcov' = Covered(e, TempNames(ex[e].uid))
    /\ ex' = [ex EXCEPT ![e].pc = "t_unlock"]
    /\ Solo(e)
    /\ UNCHANGED <<scm, refs, head, applyOnly, xr, info, locks, branches,
                   nextUid, other>>

\* exit of get_exp_rwlock
TUnlock(e) ==
    /\ ex[e].pc = "t_unlock"
    /\ locks' = {l \in locks : l.holder # e}
    /\ ex' = [ex EXCEPT ![e].pc = "t_checkout"]
    /\ wcov' = TRUE
    /\ Solo(e)
    /\ UNCHANGED <<scm, refs, head, applyOnly, xr, info, temps, branches,
                   nextUid, other>>

\* scm.checkout(rev, detach=True, force=True): tracked files as in rev
checkout_force(g, rev) ==
    [g EXCEPT !.wt = [f \in Files |->
                        IF f \in InHead \cup g.index
                        THEN (IF rev = None THEN HeadTree[f] ELSE Tree(rev)[f])
                        ELSE g.wt[f]],
              !.index = {},
              !.merging = FALSE]

\* the checkout made in the base repository instead of the executor's own
TCheckoutBase(e) ==
    /\ ex[e].pc = "t_checkout"
    /\ head' = "detached"
    /\ scm' = checkout_force(scm, xr[e].refs["EXEC_HEAD"])
    /\ ex' = [ex EXCEPT ![e].pc = "t_merge"]
    /\ wcov' = TRUE
    /\ Solo(e)
    /\ UNCHANGED <<refs, applyOnly, xr, info, temps, locks, branches,
                   nextUid, other>>

\* lines 134-135
TCheckout(e) ==
    /\ ex[e].pc = "t_checkout"
    /\ xr' = [xr EXCEPT ![e].head = IF ex[e].branch # None THEN xr[e].br
                                    ELSE xr[e].refs["EXEC_HEAD"]]
    /\ ex' = [ex EXCEPT ![e].pc = "t_merge"]
    /\ wcov' = TRUE
    /\ Solo(e)
    /\ UNCHANGED <<scm, refs, head, applyOnly, info, temps, locks, branches,
                   nextUid, other>>

\* lines 136-139
TMergeOk(e) ==
    /\ ex[e].pc = "t_merge"
    /\ xr[e].refs["EXEC_MERGE"] # None
    /\ xr' = [xr EXCEPT ![e].merged = xr[e].refs["EXEC_MERGE"]]
    /\ ex' = [ex EXCEPT ![e].pc = "ready"]
    /\ wcov' = TRUE
    /\ Solo(e)
    /\ UNCHANGED <<scm, refs, head, applyOnly, info, temps, locks, branches,
                   nextUid, other>>

\* lines 138-141: the merge raises _SCMError
TMergeFail(e) ==
    /\ ex[e].pc = "t_merge"
    /\ ex' = [ex EXCEPT ![e] = Raise(e, "GitMergeError")]
    /\ wcov' = TRUE
    /\ Solo(e)
    /\ UNCHANGED <<scm, refs, head, applyOnly, xr, info, temps, locks,
                   branches, nextUid, other>>

(***************************************************************************)
(* Ref primitives the executors call on scm                                *)
(***************************************************************************)
set_ref(r, name, rev) == [r EXCEPT ![name] = rev]

\* remove_ref raising when the ref does not exist
remove_ref_strict(r, name) ==
    [refs |-> [r EXCEPT ![name] = None], ok |-> r[name] # None]

\* scm.remove_ref(name): the ref is gone afterwards, whether it existed or not
remove_ref(r, name) == [refs |-> [r EXCEPT ![name] = None], ok |-> TRUE]

(***************************************************************************)
(* WorkspaceExecutor.init_git                                              *)
(***************************************************************************)
\* lines 215-217
WPrepare(e) ==
    /\ ex[e].pc = "w_prep"
    /\ ex' = [ex EXCEPT ![e].pc = "w_lock", ![e].status = "PREPARING"]
    /\ info' = [info EXCEPT ![e] = "PREPARING"]
    /\ wcov' = TRUE
    /\ Solo(e)
    /\ UNCHANGED <<scm, refs, head, applyOnly, xr, temps, locks, branches,
                   nextUid, other>>

\* line 222
WSetHead(e) ==
    /\ ex[e].pc = "w_head"
    /\ refs' = set_ref(refs, "EXEC_HEAD", Entry(ex[e].entry).head_rev)
    /\ wcov' = Covered(e, {Stable("EXEC_HEAD")})
    /\ ex' = [ex EXCEPT ![e].pc = "w_mergeref"]
    /\ Solo(e)
    /\ UNCHANGED <<scm, head, applyOnly, xr, info, temps, locks, branches,
                   nextUid, other>>

\* EXEC_MERGE set to the head commit instead of the stash commit
WSetMergeHead(e) ==
    /\ ex[e].pc = "w_mergeref"
    /\ refs' = set_ref(refs, "EXEC_MERGE", Entry(ex[e].entry).head_rev)
    /\ wcov' = Covered(e, {Stable("EXEC_MERGE")})
    /\ ex' = [ex EXCEPT ![e].pc = "w_base"]
    /\ Solo(e)
    /\ UNCHANGED <<scm, head, applyOnly, xr, info, temps, locks, branches,
                   nextUid, other>>

\* line 223
WSetMerge(e) ==
    /\ ex[e].pc = "w_mergeref"
    /\ refs' = set_ref(refs, "EXEC_MERGE", Entry(ex[e].entry).stash_rev)
    /\ wcov' = Covered(e, {Stable("EXEC_MERGE")})
    /\ ex' = [ex EXCEPT ![e].pc = "w_base"]
    /\ Solo(e)
    /\ UNCHANGED <<scm, head, applyOnly, xr, info, temps, locks, branches,
                   nextUid, other>>

\* line 224
WSetBaseline(e) ==
    /\ ex[e].pc = "w_base"
    /\ refs' = set_ref(refs, "EXEC_BASELINE", Entry(ex[e].entry).baseline_rev)
    /\ wcov' = Covered(e, {Stable("EXEC_BASELINE")})
    /\ ex' = [ex EXCEPT ![e].pc = "w_detach"]
    /\ Solo(e)
    /\ UNCHANGED <<scm, head, applyOnly, xr, info, temps, locks, branches,
                   nextUid, other>>

\* lines 225-231: detach_head entered on the executor's ExitStack
WDetach(e) ==
    /\ ex[e].pc = "w_detach"
    /\ ex' = [ex EXCEPT ![e].pc = "w_merge", ![e].detach = head]
    /\ head' = "detached"
    /\ scm' = checkout_force(scm, refs["EXEC_HEAD"])
    /\ wcov' = TRUE
    /\ Solo(e)
    /\ UNCHANGED <<refs, applyOnly, xr, info, temps, locks, branches, nextUid,
                   other>>

\* lines 232-234
WMergeOk(e) ==
    /\ ex[e].pc = "w_merge"
    /\ refs["EXEC_MERGE"] # None
    /\ \A f \in Files : ~Conflicts(scm.wt, Tree(refs["EXEC_MERGE"]), f)
    /\ scm' = merge(scm, refs["EXEC_MERGE"])
    /\ ex' = [ex EXCEPT ![e].pc = "w_branch"]
    /\ wcov' = TRUE
    /\ Solo(e)
    /\ UNCHANGED <<refs, head, applyOnly, xr, info, temps, locks, branches,
                   nextUid, other>>

\* lines 233-236: the merge raises _SCMError; the lease is released on the
\* way out, the detach stays entered
WMergeFail(e) ==
    /\ ex[e].pc = "w_merge"
    /\ \E left \in (IF refs["EXEC_MERGE"] = None THEN {scm}
                    ELSE MergeLeftovers(scm, refs["EXEC_MERGE"])) :
        scm' = left
    /\ locks' = {l \in locks : l.holder # e}
    /\ ex' = [ex EXCEPT ![e] = Raise(e, "GitMergeError")]
    /\ wcov' = TRUE
    /\ Solo(e)
    /\ UNCHANGED <<refs, head, applyOnly, xr, info, temps, branches, nextUid,
                   other>>

\* lines 237-240
WBranch(e) ==
    /\ ex[e].pc = "w_branch"
    /\ refs' = IF ex[e].branch # None
               THEN set_ref(refs, "EXEC_BRANCH", ex[e].branch)
               ELSE IF refs["EXEC_BRANCH"] # None
               THEN remove_ref(refs, "EXEC_BRANCH").refs
               ELSE refs
    /\ wcov' = ((ex[e].branch # None \/ refs["EXEC_BRANCH"] # None)
                    => Covered(e, {Stable("EXEC_BRANCH")}))
    /\ ex' = [ex EXCEPT ![e].pc = "w_unlock"]
    /\ Solo(e)
    /\ UNCHANGED <<scm, head, applyOnly, xr, info, temps, locks, branches,
                   nextUid, other>>

\* exit of get_exp_rwlock, line 221
WUnlock(e) ==
    /\ ex[e].pc = "w_unlock"
    /\ locks' = {l \in locks : l.holder # e}
    /\ ex' = [ex EXCEPT ![e].pc = "ready"]
    /\ wcov' = TRUE
    /\ Solo(e)
    /\ UNCHANGED <<scm, refs, head, applyOnly, xr, info, temps, branches,
                   nextUid, other>>

(***************************************************************************)
(* The workload between init_git and cleanup                               *)
(***************************************************************************)
StartRun(e) ==
    /\ ex[e].pc = "ready"
    /\ ex' = [ex EXCEPT ![e].pc = "running", ![e].status = "RUNNING"]
    /\ info' = [info EXCEPT ![e] = "RUNNING"]
    /\ wcov' = TRUE
    /\ Solo(e)
    /\ UNCHANGED <<scm, refs, head, applyOnly, xr, temps, locks, branches,
                   nextUid, other>>

\* the workload advances EXEC_CHECKPOINT in the executor's repository
Checkpoint(e) ==
    /\ ex[e].pc = "running"
    /\ IF ex[e].kind = "workspace"
       THEN /\ refs["EXEC_CHECKPOINT"] # "ck1"
            /\ refs' = set_ref(refs, "EXEC_CHECKPOINT", "ck1")
            /\ xr' = xr
       ELSE /\ xr[e].refs["EXEC_CHECKPOINT"] # "ck1"
            /\ xr' = [xr EXCEPT ![e].refs["EXEC_CHECKPOINT"] = "ck1"]
            /\ refs' = refs
    /\ wcov' = TRUE
    /\ Solo(e)
    /\ UNCHANGED <<scm, head, applyOnly, ex, info, temps, locks, branches,
                   nextUid, other>>

FinishRun(e, status) ==
    /\ ex[e].pc = "running"
    /\ ex' = [ex EXCEPT ![e].pc = "ran", ![e].status = status]
    /\ info' = [info EXCEPT ![e] = status]
    /\ wcov' = TRUE
    /\ Solo(e)
    /\ UNCHANGED <<scm, refs, head, applyOnly, xr, temps, locks, branches,
                   nextUid, other>>

(***************************************************************************)
(* cleanup                                                                 *)
(***************************************************************************)
\* what cleanup of e can have changed, as another process sees it
ObsNext(e) == <<refs', head', scm', temps', branches', info'[e], xr'[e]>>
Obs(e) == <<refs, head, scm, temps, branches, info[e], xr[e]>>

\* cleanup of e has ended: remember what it left, unless it directly
\* followed an earlier cleanup of e
Ended(e) ==
    idem' = [x \in Executors |->
                IF x # e THEN <<>>
                ELSE IF idem[e] = <<>> THEN ObsNext(e) ELSE idem[e]]

\* BaseLocalExecutor.cleanup, lines 53-56, with BaseExecutor.cleanup
\* deleting the infofile; WorkspaceExecutor.cleanup line 247
CleanupStart(e) ==
    /\ ex[e].pc \in {"new", "ready", "failed", "running", "ran", "cleaned"}
    /\ ex[e].cleanups < MaxCleanups
    /\ ex' = [ex EXCEPT ![e].cleanups = @ + 1,
                        ![e].pc = IF ex[e].kind = "tempdir" THEN "c_rmdir"
                                  ELSE "c_baseline"]
    /\ info' = [info EXCEPT ![e] = None]
    /\ wcov' = TRUE
    /\ Solo(e)
    /\ UNCHANGED <<scm, refs, head, applyOnly, xr, temps, locks, branches,
                   nextUid, other>>

\* TempDirExecutor.cleanup, lines 161-162
CRmDir(e) ==
    /\ ex[e].pc = "c_rmdir"
    /\ xr' = [xr EXCEPT ![e] = NoRepo]
    /\ ex' = [ex EXCEPT ![e].pc = "cleaned"]
    /\ wcov' = TRUE
    /\ UNCHANGED <<scm, refs, head, applyOnly, info, temps, locks, branches,
                   nextUid, other>>
    /\ Ended(e)

\* a ref removal inside `with self._detach_stack`: if it raises, the rest of
\* the block is skipped and the stack still unwinds
Removal(e, name, next) ==
    LET r == remove_ref(refs, name) IN
    /\ refs' = r.refs
    /\ wcov' = Covered(e, {Stable(name)})
    /\ ex' = [ex EXCEPT ![e].pc = IF r.ok THEN next ELSE "c_restore",
                        ![e].err = IF r.ok THEN @ ELSE "SCMError"]

\* line 249
CBaseline(e) ==
    /\ ex[e].pc = "c_baseline"
    /\ Removal(e, "EXEC_BASELINE", "c_merge")
    /\ Solo(e)
    /\ UNCHANGED <<scm, head, applyOnly, xr, info, temps, locks, branches,
                   nextUid, other>>

\* line 250
CMerge(e) ==
    /\ ex[e].pc = "c_merge"
    /\ Removal(e, "EXEC_MERGE", "c_branch")
    /\ Solo(e)
    /\ UNCHANGED <<scm, head, applyOnly, xr, info, temps, locks, branches,
                   nextUid, other>>

\* lines 251-252
CBranch(e) ==
    /\ ex[e].pc = "c_branch"
    /\ IF refs["EXEC_BRANCH"] # None
       THEN Removal(e, "EXEC_BRANCH", "c_ckpt")
       ELSE /\ refs' = refs
            /\ wcov' = TRUE
            /\ ex' = [ex EXCEPT ![e].pc = "c_ckpt"]
    /\ Solo(e)
    /\ UNCHANGED <<scm, head, applyOnly, xr, info, temps, locks, branches,
                   nextUid, other>>

\* the checkpoint published without the comparison with _orig_checkpoint
CCheckpointAlways(e) ==
    /\ ex[e].pc = "c_ckpt"
    /\ LET checkpoint == refs["EXEC_CHECKPOINT"] IN
       IF checkpoint # None
       THEN /\ refs' = set_ref(refs, "EXEC_APPLY", checkpoint)
            /\ wcov' = Covered(e, {Stable("EXEC_APPLY")})
       ELSE /\ refs' = refs
            /\ wcov' = TRUE
    /\ ex' = [ex EXCEPT ![e].pc = "c_restore"]
    /\ Solo(e)
    /\ UNCHANGED <<scm, head, applyOnly, xr, info, temps, locks, branches,
                   nextUid, other>>

\* lines 253-255
CCheckpoint(e) ==
    /\ ex[e].pc = "c_ckpt"
    /\ LET checkpoint == refs["EXEC_CHECKPOINT"] IN
       IF checkpoint # None /\ checkpoint # ex[e].orig_checkpoint
       THEN /\ refs' = set_ref(refs, "EXEC_APPLY", checkpoint)
            /\ wcov' = Covered(e, {Stable("EXEC_APPLY")})
       ELSE /\ refs' = refs
            /\ wcov' = TRUE
    /\ ex' = [ex EXCEPT ![e].pc = "c_restore"]
    /\ Solo(e)
    /\ UNCHANGED <<scm, head, applyOnly, xr, info, temps, locks, branches,
                   nextUid, other>>

\* exit of `with self._detach_stack`: detach_head restores the original
\* HEAD and resets the index; the stack is empty afterwards
CRestore(e) ==
    /\ ex[e].pc = "c_restore"
    /\ IF ex[e].detach # None
       THEN /\ head' = ex[e].detach
            /\ scm' = reset(scm)
       ELSE /\ head' = head
            /\ scm' = scm
    /\ ex' = [ex EXCEPT ![e].pc = "cleaned", ![e].detach = None]
    /\ wcov' = TRUE
    /\ UNCHANGED <<refs, applyOnly, xr, info, temps, locks, branches, nextUid,
                   other>>
    /\ Ended(e)

\* lines 246-247, or line 160: super().cleanup or remove() raises before
\* `with self._detach_stack` is entered; the infofile is deleted or not
CleanupRaise(e) ==
    /\ ex[e].pc \in {"new", "ready", "failed", "running", "ran", "cleaned"}
    /\ ex[e].cleanups < MaxCleanups
    /\ ex' = [ex EXCEPT ![e].cleanups = @ + 1, ![e].pc = "cleaned",
                        ![e].err = "OSError"]
    /\ \E i \in {info[e], None} : info' = [info EXCEPT ![e] = i]
    /\ wcov' = TRUE
    /\ UNCHANGED <<scm, refs, head, applyOnly, xr, temps, locks, branches,
                   nextUid, other>>
    /\ Ended(e)

\* lines 249-252: a remove_ref raises; the rest of the block is skipped and
\* the ExitStack unwinds
CRemovalRaise(e) ==
    /\ ex[e].pc \in {"c_baseline", "c_merge", "c_branch"}
    /\ ex[e].pc = "c_branch" => refs["EXEC_BRANCH"] # None
    /\ ex' = [ex EXCEPT ![e].pc = "c_restore", ![e].err = "SCMError"]
    /\ wcov' = TRUE
    /\ Solo(e)
    /\ UNCHANGED <<scm, refs, head, applyOnly, xr, info, temps, locks,
                   branches, nextUid, other>>

(***************************************************************************)
(* A concurrent writer of the branch                                       *)
(***************************************************************************)
OtherLock ==
    /\ other = "idle"
    /\ ~Blocked("other", {}, {Stable("br")})
    /\ locks' = locks \cup Leases("other", {}, {Stable("br")})
    /\ other' = "locked"
    /\ wcov' = TRUE
    /\ Solo("other")
    /\ UNCHANGED <<scm, refs, head, applyOnly, ex, xr, info, temps, branches,
                   nextUid>>

OtherMove ==
    /\ other = "locked"
    /\ branches' = [branches EXCEPT !["br"] = "b2"]
    /\ other' = "moved"
    /\ wcov' = TRUE
    /\ Solo("other")
    /\ UNCHANGED <<scm, refs, head, applyOnly, ex, xr, info, temps, locks,
                   nextUid>>

OtherUnlock ==
    /\ other = "moved"
    /\ locks' = {l \in locks : l.holder # "other"}
    /\ other' = "idle"
    /\ wcov' = TRUE
    /\ Solo("other")
    /\ UNCHANGED <<scm, refs, head, applyOnly, ex, xr, info, temps, branches,
                   nextUid>>

(***************************************************************************)
(* Specifications                                                          *)
(***************************************************************************)
\* a blocked lease request, followed for the first MaxContend tries only
Contend(e) ==
    /\ ex[e].attempt <= MaxContend
    /\ AcquireFail(e)

\* the steps of executor e once it is made
ExecStep(e) ==
    \/ StartInit(e)
    \/ Acquire(e)
    \/ Contend(e)
    \/ TInitRepo(e)
    \/ TPrepare(e)
    \/ TSetTemps(e)
    \/ TPush(e)
    \/ TPushFail(e)
    \/ TLocal(e)
    \/ TRemoveTemps(e)
    \/ TUnlock(e)
    \/ TCheckout(e)
    \/ TMergeOk(e)
    \/ TMergeFail(e)
    \/ WPrepare(e)
    \/ WSetHead(e)
    \/ WSetMerge(e)
    \/ WSetBaseline(e)
    \/ WDetach(e)
    \/ WMergeOk(e)
    \/ WMergeFail(e)
    \/ WBranch(e)
    \/ WUnlock(e)
    \/ StartRun(e)
    \/ Checkpoint(e)
    \/ \E st \in {"SUCCESS", "FAILED"} : FinishRun(e, st)
    \/ CRmDir(e)
    \/ CBaseline(e)
    \/ CMerge(e)
    \/ CBranch(e)
    \/ CCheckpoint(e)
    \/ CRestore(e)

\* one executor of any kind, cleaned up more than once, beside a writer of
\* the branch
NextSolo ==
    \/ \E k \in Kinds, s \in Entries, b \in Branches \cup {None} :
        Create("e1", k, s, b)
    \/ CleanupStart("e1")
    \/ ExecStep("e1")
    \/ TInitRepoExists("e1")
    \/ OtherLock
    \/ OtherMove
    \/ OtherUnlock

InitSolo ==
    /\ InitBase
    /\ InitExec

SpecSolo == InitSolo /\ [][NextSolo]_vars

\* two executors side by side, made from the same entry or from two
\* entries, each cleaned up MaxPairCleanups times at most
NextExec ==
    \E e \in Executors :
        \/ \E k \in Kinds, s \in Entries, b \in Branches \cup {None} :
            /\ e = "e1" => s = "s1"
            /\ Create(e, k, s, b)
        \/ /\ ex[e].cleanups < MaxPairCleanups
           /\ CleanupStart(e)
        \/ ExecStep(e)

\* one executor as in SpecSolo, with cleanup steps that raise
NextTeardown ==
    \/ NextSolo
    \/ CleanupRaise("e1")
    \/ CRemovalRaise("e1")

SpecTeardown == InitSolo /\ [][NextTeardown]_vars

InitPair ==
    /\ InitBase
    /\ InitExec
    /\ refs["EXEC_CHECKPOINT"] = None

SpecExec == InitPair /\ [][NextExec]_vars

\* init_git of one executor, alone or beside a writer that holds its
\* leases on the stable refs and on the branch and never gives them up
Held == Leases("other", {}, {ExecNamespace, Stable("br")})

InitLock ==
    /\ InitBase
    /\ InitExecutors
    /\ locks \in {{}, Held}

InitStep(e) ==
    \/ StartInit(e)
    \/ Acquire(e)
    \/ AcquireFail(e)
    \/ TInitRepo(e)
    \/ TInitRepoExists(e)
    \/ TPrepare(e)
    \/ TSetTemps(e)
    \/ TPush(e)
    \/ TPushFail(e)
    \/ TLocal(e)
    \/ TRemoveTemps(e)
    \/ TUnlock(e)
    \/ TCheckout(e)
    \/ TMergeOk(e)
    \/ TMergeFail(e)
    \/ WPrepare(e)
    \/ WSetHead(e)
    \/ WSetMerge(e)
    \/ WSetBaseline(e)
    \/ WDetach(e)
    \/ WMergeOk(e)
    \/ WMergeFail(e)
    \/ WBranch(e)
    \/ WUnlock(e)

NextLock ==
    \/ \E k \in Kinds, s \in Entries, b \in Branches \cup {None} :
        Create("e1", k, s, b)
    \/ InitStep("e1")

SpecLock == InitLock /\ [][NextLock]_vars

\* the process that runs init_git keeps running
FairSpecLock == SpecLock /\ WF_vars(NextLock)

\* apply alone: no executor is made
InitApplyOnly ==
    /\ InitApply
    /\ InitExec

SpecApply == InitApplyOnly /\ [][NextApply]_vars

(***************************************************************************)
(* Properties of apply                                                     *)
(***************************************************************************)
Finished == ap.pc \in {"done", "raised"}
RaisedAfterResolution == ap.pc = "raised" /\ ap.err # "InvalidExpRevError"

\* C1: whenever apply raises after resolution, the tracked files' contents
\* and the dirty/clean status equal those at the call, for every initial
\* working tree (clean or dirty) and every failure.
C1_RollbackComplete ==
    RaisedAfterResolution =>
        /\ \A f \in InHead : scm.wt[f] = pre.scm.wt[f]
        /\ is_dirty(scm) = is_dirty(pre.scm)

\* C2: after any apply, returned or raised, the stash stack is the one of
\* before the call and the working tree is neither detached nor mid-merge.
C2_StashAndStateRestored ==
    Finished =>
        /\ scm.stash = pre.scm.stash
        /\ ~scm.merging
        /\ head = pre.head

\* the name denotes nothing, or what it denotes first has another baseline
Unresolvable(rev) ==
    /\ resolve_rev(rev) = None
    /\ get_ref_and_entry_by_names(rev).ref.commit = None
    /\ get_ref_and_entry_by_names(rev).entry.stash_rev = None
Mismatched(rev) ==
    LET found == get_ref_and_entry_by_names(rev) IN
    IF resolve_rev(rev) # None THEN BaselineOf(resolve_rev(rev)) # get_rev
    ELSE IF found.ref.commit # None THEN found.ref.baseline_sha # get_rev
    ELSE IF found.entry.stash_rev # None THEN found.entry.baseline_rev # get_rev
    ELSE FALSE

\* C3: a name that cannot be resolved, or whose revision, experiment or
\* queued entry has another baseline, makes apply raise
\* InvalidExpRevError before any mutation: no snapshot, no merge, no ref
\* written, working tree unchanged.
C3_BaselineGating ==
    (ap.pc \notin {"idle", "resolve"}
        /\ (Unresolvable(ap.rev) \/ Mismatched(ap.rev))) =>
        /\ ap.pc = "raised"
        /\ ap.err = "InvalidExpRevError"
        /\ ~ap.mergeTried
        /\ ap.stash_rev = 0
        /\ scm = pre.scm
        /\ refs = pre.refs
        /\ head = pre.head

C3_Witness ==
    /\ ap.pc = "raised"
    /\ ap.err = "InvalidExpRevError"
    /\ Mismatched(ap.rev)
    /\ is_dirty(scm)

\* C4: when apply returns, EXEC_APPLY is the resolved commit, the files the
\* experiment changes hold its content and the stash stack is the one of
\* before the call; when apply raises, EXEC_APPLY is what it was.
C4_ApplyRefExact ==
    /\ ap.pc = "done" =>
        /\ refs["EXEC_APPLY"] = ap.exp_rev
        /\ ap.exp_rev \in Commits
        /\ \A f \in ChangedBy(ap.exp_rev) : scm.wt[f] = ap.exp_rev
        /\ scm.stash = pre.scm.stash
    /\ ap.pc = "raised" => refs["EXEC_APPLY"] = pre.refs["EXEC_APPLY"]

C4_Witness ==
    /\ ap.pc = "done"
    /\ ap.stash_rev # 0
    /\ ap.rev # ap.exp_rev
    /\ pre.refs["EXEC_APPLY"] \notin {None, ap.exp_rev}

\* the snapshot of the dirty tree conflicts with the experiment on file f
ConflictOn(f) ==
    /\ ap.exp_rev \in Commits
    /\ Conflicts(pre.scm.wt, Tree(ap.exp_rev), f)

\* C5: with a dirty tree whose snapshot conflicts with the experiment and
\* no other failure, force=true makes apply succeed with the experiment's
\* version of the file; force=false makes it raise ApplyConflictError
\* after rollback, the file holding the user's dirty content.
C5_ForceDecides ==
    (Finished /\ ~ap.injected /\ \E f \in Files : ConflictOn(f)) =>
        /\ ap.force =>
            /\ ap.pc = "done"
            /\ \A f \in Files : ConflictOn(f) => scm.wt[f] = ap.exp_rev
        /\ ~ap.force =>
            /\ ap.pc = "raised"
            /\ ap.err = "ApplyConflictError"
            /\ ap.rolledBack
            /\ \A f \in Files : ConflictOn(f) =>
                /\ scm.wt[f] = pre.scm.wt[f]
                /\ scm.wt[f] \notin {ap.exp_rev, HeadTree[f]}

C5_Witness ==
    /\ ap.pc = "raised"
    /\ ap.err = "ApplyConflictError"
    /\ ~ap.injected
    /\ ~ap.force
    /\ ConflictOn("a.txt")
    /\ scm.wt["a.txt"] = "user"

\* C6: every exception raised by a repository-mutating step of apply is
\* followed by the rollback routine before it reaches the caller; a backend
\* error of the squash merge surfaces as GitMergeError.
C6_RollbackBeforeError ==
    RaisedAfterResolution =>
        /\ ap.rolledBack
        /\ ap.err \in {"GitMergeError", "ApplyConflictError", "Exception",
                       "CheckoutError"}

InHandoff(e) == \E l \in locks : l.holder = e /\ l.mode = "w"

\* C8: two init_git calls for the same stash entry are never both inside
\* their locked blocks, so their ref writes in the base repository do not
\* interleave
C8_ExclusiveConsumption ==
    \A a, b \in Executors :
        (a # b /\ ex[a].entry = ex[b].entry) =>
            ~(InHandoff(a) /\ InHandoff(b))

C10_WritesUnderLease == wcov

\* C11: no step of a temp directory executor, in init_git, in the run or in
\* cleanup, changes the base repository's HEAD, working tree, index or
\* stable refs; the only temp refs it sets or removes there are those of
\* its current try
C11_TempDirIsolation ==
    [][ex["e1"].kind = "tempdir" =>
        /\ refs' = refs
        /\ head' = head
        /\ scm' = scm
        /\ \A t \in (temps' \ temps) \cup (temps \ temps') :
                t.name \in TempNames(ex["e1"].uid)]_vars

\* a temp directory executor was initialized, ran and was cleaned up, and
\* the base repository is as it was
C11_Witness ==
    /\ ex["e1"].kind = "tempdir"
    /\ ex["e1"].pc = "cleaned"
    /\ ex["e1"].status = "SUCCESS"
    /\ head = "main"
    /\ scm.wt = HeadTree
    /\ temps = {}

\* C12: every temp ref in the base repository is under a write lease on
\* its name, so none outlives the try of init_git that set it, however the
\* try ends, and a temp ref is removed only while that lease is held
C12_NoTempRefsLeft ==
    /\ [](\A t \in temps :
            \E l \in locks : l.mode = "w" /\ l.name = t.name)
    /\ [][\A t \in temps \ temps' :
            \E l \in locks : l.mode = "w" /\ l.name = t.name]_vars

\* a try of init_git that had set its temp refs was refused the read lease
\* on the branch, and the next try has begun with no temp ref left
C12_Witness ==
    /\ ex["e1"].kind = "tempdir"
    /\ ex["e1"].branch # None
    /\ ex["e1"].attempt = 2
    /\ ex["e1"].pc = "t_init"
    /\ temps = {}

\* the refs of the handoff as the entry of e gives them
HandoffRefs(e, r) ==
    /\ r["EXEC_HEAD"] = Entry(ex[e].entry).head_rev
    /\ r["EXEC_MERGE"] = Entry(ex[e].entry).stash_rev
    /\ r["EXEC_BASELINE"] = Entry(ex[e].entry).baseline_rev

\* C13: when init_git has returned, the executor's repository has
\* EXEC_HEAD, EXEC_MERGE and EXEC_BASELINE at the entry's head_rev,
\* stash_rev and baseline_rev, HEAD detached at head_rev (or at the commit
\* of the branch transferred), and the changes of the stash commit in the
\* working tree, not committed
C13_InitializedState ==
    \A e \in Executors :
        ex[e].pc = "ready" =>
            IF ex[e].kind = "workspace"
            THEN /\ HandoffRefs(e, refs)
                 /\ head = "detached"
                 /\ scm.wt = Merge3(Tree(Entry(ex[e].entry).head_rev),
                                    Tree(Entry(ex[e].entry).stash_rev), {})
                 /\ ~scm.merging
            ELSE /\ HandoffRefs(e, xr[e].refs)
                 /\ xr[e].head = IF ex[e].branch # None THEN xr[e].br
                                  ELSE Entry(ex[e].entry).head_rev
                 /\ ex[e].branch = None => xr[e].br = None
                 /\ xr[e].merged = Entry(ex[e].entry).stash_rev

\* init_git of a workspace executor has returned and b.txt holds the
\* content of the stash commit
C13_Witness ==
    \E e \in Executors :
        /\ ex[e].pc = "ready"
        /\ ex[e].kind = "workspace"
        /\ ex[e].entry = "s1"
        /\ scm.wt["b.txt"] = "qs"

\* the refs of the repository executor e works in
ExecRefs(e) == IF ex[e].kind = "workspace" THEN refs ELSE xr[e].refs

\* C14: when init_git has returned, EXEC_BRANCH in the executor's
\* repository names the branch asked for, or is absent if none was asked
\* for, and EXEC_CHECKPOINT is absent, whatever they were before
C14_BranchAndCheckpoint ==
    \A e \in Executors :
        ex[e].pc = "ready" =>
            /\ ExecRefs(e)["EXEC_BRANCH"] = ex[e].branch
            /\ ExecRefs(e)["EXEC_CHECKPOINT"] = None

\* C15: an executor about to check out, or to merge EXEC_MERGE, holds no
\* ref lease: both come after the lease of the handoff is released
C15_MergeOutsideLease ==
    \A e \in Executors :
        ex[e].pc \in {"t_checkout", "t_merge", "w_detach", "w_merge"} =>
            ~\E l \in locks : l.holder = e

\* init_git of e is under way
InitPcs ==
    {"t_init", "t_prep", "t_lock", "t_settemps", "t_rlock", "t_push",
     "t_local", "t_rmtemps", "t_unlock", "t_checkout", "t_merge",
     "w_prep", "w_lock", "w_head", "w_mergeref", "w_base", "w_detach",
     "w_merge", "w_branch", "w_unlock"}

\* C16: while init_git runs, once the executor's repository exists, a
\* lease is held or a temp ref is set by it, the infofile shows PREPARING
C16_PreparingFirst ==
    \A e \in Executors :
        (/\ ex[e].pc \in InitPcs
         /\ \/ xr[e].repo
            \/ \E l \in locks : l.holder = e
            \/ OwnTemps(e) # {})
            => info[e] = "PREPARING"

\* C17: when a cleanup call of a workspace executor has ended, returning
\* or raising, the base repository is back on the HEAD it had before
\* init_git and EXEC_BASELINE, EXEC_MERGE and EXEC_BRANCH are absent
C17_HeadRestored ==
    \A e \in Executors :
        (ex[e].kind = "workspace" /\ ex[e].pc = "cleaned") =>
            /\ head = "main"
            /\ ex[e].detach = None
            /\ refs["EXEC_BASELINE"] = None
            /\ refs["EXEC_MERGE"] = None
            /\ refs["EXEC_BRANCH"] = None

\* C18: with c0 the EXEC_CHECKPOINT recorded when the workspace executor
\* was made and c1 its value when cleanup reads it, cleanup sets EXEC_APPLY
\* to c1 if c1 differs from c0 and leaves EXEC_APPLY alone if they are equal
C18_CheckpointPublished ==
    [][\A e \in Executors :
        (ex[e].pc = "c_ckpt" /\ ex'[e].pc = "c_restore") =>
            refs'["EXEC_APPLY"] =
                IF refs["EXEC_CHECKPOINT"] # ex[e].orig_checkpoint
                THEN refs["EXEC_CHECKPOINT"]
                ELSE refs["EXEC_APPLY"]]_vars

\* the run moved EXEC_CHECKPOINT from ck0 to ck1 and cleanup has published
\* ck1 as EXEC_APPLY
C18_Witness ==
    \E e \in Executors :
        /\ ex[e].kind = "workspace"
        /\ ex[e].pc = "c_restore"
        /\ ex[e].orig_checkpoint = "ck0"
        /\ refs["EXEC_CHECKPOINT"] = "ck1"
        /\ refs["EXEC_APPLY"] = "ck1"

\* EXEC_MERGE and EXEC_BASELINE are both set or both absent in r, and with
\* them EXEC_HEAD is set
Paired(r) ==
    /\ (r["EXEC_MERGE"] # None) <=> (r["EXEC_BASELINE"] # None)
    /\ r["EXEC_MERGE"] # None => r["EXEC_HEAD"] # None

\* C19: in every state of the base repository in which no write lease on
\* the stable refs is held, and in every state of a temp directory
\* executor's repository, EXEC_MERGE is set exactly when EXEC_BASELINE is,
\* and then EXEC_HEAD is set
C19_MergeBaselinePaired ==
    /\ (~\E l \in locks : l.mode = "w" /\ l.name = ExecNamespace)
            => Paired(refs)
    /\ \A e \in Executors : Paired(xr[e].refs)

\* C20: a try of init_git that follows a refused lease starts with no
\* lease and no temp ref of the earlier tries, takes temp names no earlier
\* try had, repeats no step that fails on the repository the earlier tries
\* left, and when it returns the executor's repository has the refs a
\* first try would have given it
C20_RetryReentrant ==
    \A e \in Executors :
        /\ (ex[e].attempt >= 2 /\ ex[e].pc = InitStart(e)) =>
                /\ ~\E l \in locks : l.holder = e
                /\ temps = {}
        /\ \A t \in OwnTemps(e) : t.name[2] = nextUid - 1
        /\ ex[e].err # "FileExistsError"
        /\ (ex[e].attempt >= 2 /\ ex[e].pc = "ready") =>
                /\ HandoffRefs(e, ExecRefs(e))
                /\ ExecRefs(e)["EXEC_BRANCH"] = ex[e].branch

\* init_git of e, given a branch, is between reading the branch for the
\* handoff and setting EXEC_BRANCH to it
BranchHandoff(e) ==
    /\ ex[e].branch # None
    /\ ex[e].pc \in {"t_push", "t_local", "w_branch"}

\* C21: from the moment the branch is read for the handoff until
\* EXEC_BRANCH is set to it, the executor holds a read lease on the branch,
\* which keeps a writer of the branch out
C21_BranchReadLease ==
    \A e \in Executors :
        BranchHandoff(e) =>
            \E l \in locks :
                /\ l.holder = e
                /\ l.mode = "r"
                /\ l.name = Stable(ex[e].branch)

\* apply got past the resolution of ap.rev
Resolved == ap.pc \notin {"idle", "resolve"} /\ ap.err # "InvalidExpRevError"

\* C22: when the resolution succeeds, the commit merged is the directly
\* resolved commit if there is one, else the commit of the experiment ref
\* if the name has one, else the stash_rev of the queued entry; is_stash is
\* set exactly in the last case; on return EXEC_APPLY is that commit; and
\* the packed arguments file is deleted exactly when is_stash is set and
\* the merge and the re-apply of the snapshot succeeded
C22_ResolutionOrder ==
    LET d == resolve_rev(ap.rev)
        f == get_ref_and_entry_by_names(ap.rev)
        chosen == IF d # None THEN d
                  ELSE IF f.ref.commit # None THEN f.ref.commit
                  ELSE f.entry.stash_rev
        past == ap.pc \in {"checkout", "setref", "done"}
                    \/ (ap.pc = "raised" /\ ap.err = "CheckoutError")
    IN  /\ Resolved =>
            /\ ap.exp_rev = chosen
            /\ ap.is_stash <=>
                    (d = None /\ f.ref.commit = None /\ f.entry.stash_rev # None)
        /\ ap.pc = "done" => refs["EXEC_APPLY"] = chosen
        /\ ap.pc # "idle" =>
                argsFile = IF ap.is_stash /\ past THEN FALSE ELSE pre.argsFile

\* apply of a queued entry returned and the packed arguments file that
\* was there at the call is deleted
C22_Witness ==
    /\ ap.pc = "done"
    /\ ap.rev = "queued"
    /\ ap.is_stash
    /\ ap.exp_rev = "qs"
    /\ pre.argsFile
    /\ ~argsFile

====
